---- MODULE Spec2Model ----
(***************************************************************************)
(* First-order update rules of cs231n/optim.py (sgd, sgd_momentum,         *)
(* nesterov_momentum, rmsprop, adam) as a state machine: a caller holds    *)
(* two parameters that it trains with one rule.  Each parameter has its    *)
(* own array and its own configuration record, both start from equal       *)
(* values, and a step calls the rule on one of them, replacing its array   *)
(* and record by what the rule returns.  w, config and absent are those of *)
(* the parameter the caller is stepping, other those of the parameter it   *)
(* is not.                                                                 *)
(*                                                                         *)
(* Numbers are IEEE-754 binary64 values, as Python floats and float64     *)
(* arrays hold them, with signed zeros, subnormal numbers, infinities and  *)
(* nan: +, -, *, / and np.sqrt round their exact result to the nearest     *)
(* double, ties to even; ** and np.power are the C library's pow (np.power *)
(* may also square by multiplying), which may miss the nearest double by   *)
(* one place when the exact power lies close to the middle between two     *)
(* doubles; Python's ** raises an exception when pow overflows or divides  *)
(* by zero, np.power does not.  The significand is kept as a               *)
(* sequence of limbs.  Arrays are one-dimensional: a sequence of doubles,  *)
(* combined elementwise under numpy's broadcasting rule.                   *)
(***************************************************************************)
EXTENDS Integers, Sequences, FiniteSets, TLC

VARIABLES rule, w, config, absent, other, calls, hist

vars == <<rule, w, config, absent, other, calls, hist>>

\* ------------------------------------------------------------------ bounds
\* Longest array the caller passes.
MaxLen == 2
\* Calls of the rule in one run.
MaxCalls == 2

\* ------------------------------------------------- natural numbers (limbs)
\* A natural number is the sequence of its digits in base Base, lowest
\* first, without leading zeros; <<>> is 0.
Base == 16384
LimbBits == 14

\* 2^k for k in 0..LimbBits
Pow2(k) ==
    <<1, 2, 4, 8, 16, 32, 64, 128, 256, 512, 1024, 2048, 4096, 8192,
      16384>>[k + 1]

Limb(a, i) == IF i >= 1 /\ i <= Len(a) THEN a[i] ELSE 0

\* Index of the highest digit of a that is not zero; 0 when there is none.
BTop(a) ==
    IF \A i \in 1..Len(a) : a[i] = 0 THEN 0
    ELSE CHOOSE i \in 1..Len(a) :
            a[i] # 0 /\ \A j \in (i + 1)..Len(a) : a[j] = 0

\* a without its leading zeros, as a sequence of computed digits.
BTrim(a) ==
    LET digits == a \o <<>>
    IN  SubSeq(digits, 1, BTop(digits))

BInt(n) ==
    BTrim(<<n % Base, (n \div Base) % Base, n \div (Base * Base)>>)

\* The carry into digit i of a sum with the digit sums s: some lower digit
\* sum overflows and the digit sums between it and i are all Base - 1.
BCarry(s, i) ==
    IF \E j \in 1..(i - 1) :
          s[j] >= Base /\ \A k \in (j + 1)..(i - 1) : s[k] = Base - 1
    THEN 1 ELSE 0

BAdd(a, b) ==
    IF a = <<>> THEN b
    ELSE IF b = <<>> THEN a
    ELSE LET n == (IF Len(a) > Len(b) THEN Len(a) ELSE Len(b)) + 1
             s == [i \in 1..n |-> Limb(a, i) + Limb(b, i)] \o <<>>
         IN  BTrim([i \in 1..n |-> (s[i] + BCarry(s, i)) % Base])

\* The borrow from digit i of a - b.
BBorrow(a, b, i) ==
    IF \E j \in 1..(i - 1) :
          /\ a[j] < Limb(b, j)
          /\ \A k \in (j + 1)..(i - 1) : a[k] = Limb(b, k)
    THEN 1 ELSE 0

\* a - b for a >= b.
BSub(a, b) ==
    IF b = <<>> THEN a
    ELSE BTrim([i \in 1..Len(a) |->
                  (a[i] - Limb(b, i) - BBorrow(a, b, i) + Base) % Base])

\* -1, 0, 1 as a < b, a = b, a > b.
BCmp(a, b) ==
    IF Len(a) < Len(b) THEN -1
    ELSE IF Len(a) > Len(b) THEN 1
    ELSE IF a = b THEN 0
    ELSE LET i == CHOOSE i \in 1..Len(a) :
                     a[i] # b[i] /\ \A j \in (i + 1)..Len(a) : a[j] = b[j]
         IN  IF a[i] < b[i] THEN -1 ELSE 1

\* a * k for 0 <= k < Base: the low halves of the digit products plus their
\* high halves one place up.
BMulSmall(a, k) ==
    IF a = <<>> \/ k = 0 THEN <<>>
    ELSE BAdd(BTrim([i \in 1..Len(a) |-> (a[i] * k) % Base]),
              BTrim(<<0>> \o [i \in 1..Len(a) |-> (a[i] * k) \div Base]))

\* Sum of the digit products of a * b that fall on place k, for b of at
\* most 4 digits.
BColumn(a, b, k) ==
    Limb(a, k) * Limb(b, 1) + Limb(a, k - 1) * Limb(b, 2)
        + Limb(a, k - 2) * Limb(b, 3) + Limb(a, k - 3) * Limb(b, 4)

\* The number with the column sums col (each < Base^3): their low digits,
\* plus their middle digits one place up, plus their high digits two up.
BColumns(col) ==
    BAdd(BAdd(BTrim([k \in DOMAIN col |-> col[k] % Base]),
              BTrim(<<0>> \o [k \in DOMAIN col |-> (col[k] \div Base) % Base])),
         BTrim(<<0, 0>> \o [k \in DOMAIN col |-> col[k] \div (Base * Base)]))

\* a * b for b of at most 4 digits.
BMul(a, b) ==
    IF a = <<>> \/ b = <<>> THEN <<>>
    ELSE BColumns([k \in 1..(Len(a) + Len(b)) |-> BColumn(a, b, k)] \o <<>>)

\* a * 2^k: a digit of the result is the low part of one shifted digit of a
\* and the high part of the digit below it.
BShl(a, k) ==
    IF a = <<>> THEN a
    ELSE LET q == k \div LimbBits
             p == Pow2(k % LimbBits)
         IN  BTrim([i \in 1..(Len(a) + q + 1) |->
                      IF i <= q THEN 0
                      ELSE ((Limb(a, i - q) * p) % Base)
                               + ((Limb(a, i - q - 1) * p) \div Base)])

\* floor(a / 2^k)
BShr(a, k) ==
    IF a = <<>> THEN a
    ELSE LET q == k \div LimbBits
             p == Pow2(k % LimbBits)
         IN  BTrim([i \in 1..(IF Len(a) > q THEN Len(a) - q ELSE 0) |->
                      (a[i + q] \div p)
                          + (Limb(a, i + q + 1) % p) * (Base \div p)])

\* Some of the k lowest bits of a is set.
BLow(a, k) ==
    \/ \E i \in 1..(k \div LimbBits) : Limb(a, i) # 0
    \/ Limb(a, k \div LimbBits + 1) % Pow2(k % LimbBits) # 0

\* Bit k of a (bit 0 is the lowest).
BBit(a, k) == (Limb(a, k \div LimbBits + 1) \div Pow2(k % LimbBits)) % 2

\* Number of bits of a digit n.
BitsOf(n) ==
    IF n = 0 THEN 0
    ELSE CHOOSE k \in 1..LimbBits : Pow2(k - 1) <= n /\ n < Pow2(k)

BLen(a) == IF a = <<>> THEN 0 ELSE (Len(a) - 1) * LimbBits + BitsOf(a[Len(a)])

\* The quotient digit at r / d from the estimate q >= it (r < d * Base).
RECURSIVE BFix(_, _, _)
BFix(q, r, d) == IF BCmp(BMulSmall(d, q), r) > 0 THEN BFix(q - 1, r, d) ELSE q

\* An estimate >= the quotient digit at r / d, from the two top digits of r.
BEst(r, d) ==
    LET est == (Limb(r, Len(d) + 1) * Base + Limb(r, Len(d))) \div d[Len(d)]
    IN  IF est >= Base THEN Base - 1 ELSE est

\* Digits i..1 of the quotient n / d, highest first, followed by 1 when the
\* division leaves a remainder and by 0 when it does not: r < d is the
\* remainder of the digits of n above i, d has its top digit >= Base / 2.
RECURSIVE BDivAt(_, _, _, _)

\* The quotient digit q at place i, r1 being the remainder so far with
\* digit i of n brought down, and the digits below it.
BDivRest(n, i, r1, d, q) ==
    <<q>> \o BDivAt(n, i - 1, BSub(r1, BMulSmall(d, q)), d)

BDivDigit(n, i, r1, d) == BDivRest(n, i, r1, d, BFix(BEst(r1, d), r1, d))

BDivAt(n, i, r, d) ==
    IF i = 0 THEN <<IF r = <<>> THEN 0 ELSE 1>>
    ELSE IF r = <<>> /\ n[i] = 0 THEN <<0>> \o BDivAt(n, i - 1, r, d)
    ELSE BDivDigit(n, i, BTrim(<<n[i]>> \o r), d)

\* The quotient and the remainder flag from the digits ds of BDivAt.
BQuot(i, ds) ==
    [nz |-> ds[i + 1] = 1, q |-> BTrim([k \in 1..i |-> ds[i + 1 - k]])]

\* BDiv for a divisor whose top digit is >= Base / 2.  The digits of n that
\* d's length less one covers give no quotient digit.
BDivNorm(n, d) ==
    LET i == IF Len(n) >= Len(d) THEN Len(n) - Len(d) + 1 ELSE 0
    IN  BQuot(i, BDivAt(n, i, BTrim(SubSeq(n, i + 1, Len(n))), d))

\* [q |-> floor(n / d), nz |-> the division leaves a remainder], d > 0.
BDiv(n, d) ==
    LET s == LimbBits - BitsOf(d[Len(d)])
    IN  BDivNorm(BShl(n, s), BShl(d, s))

\* 2 * d.q, plus 1 when d.nz: the bit below the quotient's bits tells the
\* rounding that digits were left out.
BSticky(d) == BAdd(BShl(d.q, 1), IF d.nz THEN <<1>> ELSE <<>>)

\* floor(sqrt(n)) for n < 2^28.
ISqrt(n) ==
    LET h == CHOOSE h \in 0..127 :
                 (128 * h) * (128 * h) <= n
                     /\ n < (128 * (h + 1)) * (128 * (h + 1))
    IN  CHOOSE r \in (128 * h)..(128 * h + 127) :
            r * r <= n /\ n < (r + 1) * (r + 1)

\* Newton's iteration for floor(sqrt(n)) from x >= floor(sqrt(n)): the next
\* value is floor((x + floor(n / x)) / 2), and x is the root once
\* floor(n / x) >= x.
RECURSIVE BNewton(_, _)

BNewtonStep(n, x, q) ==
    IF BCmp(q, x) >= 0 THEN x ELSE BNewton(n, BShr(BAdd(x, q), 1))

BNewton(n, x) == BNewtonStep(n, x, BDiv(n, x).q)

\* floor(sqrt(n)) for n of 8 limbs (2^110 <= n < 2^112).
BSqrt(n) == BNewton(n, <<0, 0, 0>> \o BInt(ISqrt(n[8] * Base + n[7]) + 1))

\* ------------------------------------------------------ binary64 numbers
\* A double is <<s, e, m>> with the sign s in {-1, 1}.  A finite double is
\* s * m * 2^e with EMin <= e <= EMax and m a natural number below 2^53; m
\* has exactly 53 bits unless e = EMin (subnormal numbers, and the two
\* zeros with m = 0).  An infinity has e = EMax + 1 and m = 0; nan is one
\* value, with e = EMax + 1 and m = 1.
EMin == -1074
EMax == 971

\* The zero and the infinity of sign s.
Zeroed(s) == <<s, EMin, <<>>>>
Infinite(s) == <<s, EMax + 1, <<>>>>

Zero == Zeroed(1)
Inf == Infinite(1)
NaN == <<1, EMax + 1, <<1>>>>

IsNaN(a) == a[2] > EMax /\ a[3] # <<>>
IsInf(a) == a[2] > EMax /\ a[3] = <<>>
Is0(a) == a[2] <= EMax /\ a[3] = <<>>
\* Finite and not zero.
Regular(a) == a[2] <= EMax /\ a[3] # <<>>

\* s * q * 2^e for q in double's format at e; past the largest exponent
\* the result is an infinity.
Finite(s, e, q) == IF e > EMax THEN Infinite(s) ELSE <<s, e, q>>

\* s * q * 2^e for q of at most 53 bits, or q = 2^53 after a carry out of
\* the top.
Renorm(s, e, q) ==
    IF BLen(q) > 53 THEN Finite(s, e + 1, BShr(q, 1)) ELSE Finite(s, e, q)

\* q is the kept part of the significand, half the first bit dropped and
\* low whether a lower dropped bit is set.  To the "nearest": up when above
\* the middle, to the even neighbour in the middle; "down": the magnitude is
\* cut off; "up": the magnitude goes up when anything was dropped.
RoundOff(mode, s, e, q, half, low) ==
    Renorm(s, e,
           IF \/ mode = "nearest" /\ half /\ (low \/ BBit(q, 0) = 1)
              \/ mode = "up" /\ (half \/ low)
           THEN BAdd(q, <<1>>) ELSE q)

\* s * m * 2^e with the k lowest bits of m rounded off (k <= 0: none, the
\* value is exact).
RoundTo(mode, s, e, m, k) ==
    IF k <= 0 THEN Finite(s, e + k, BShl(m, -k))
    ELSE RoundOff(mode, s, e + k, BShr(m, k), BBit(m, k - 1) = 1,
                  BLow(m, k - 1))

\* The number of low bits of m that do not fit a double at s * m * 2^e:
\* what exceeds 53 bits, or more when the result is subnormal.
DropBits(e, n) == IF n - 53 > EMin - e THEN n - 53 ELSE EMin - e

\* s * m * 2^e rounded to the nearest double, ties to even (m > 0).
Round(s, e, m) == RoundTo("nearest", s, e, m, DropBits(e, BLen(m)))

\* The double of an integer n, |n| < 2^31.
Float(n) ==
    IF n = 0 THEN Zero
    ELSE Round(IF n < 0 THEN -1 ELSE 1, 0, BInt(IF n < 0 THEN -n ELSE n))

One == Float(1)

Neg(a) == IF IsNaN(a) THEN a ELSE <<-a[1], a[2], a[3]>>

\* sa * ma * 2^e + sb * mb * 2^e, where c is BCmp(ma, mb); an exact sum of
\* zero is +0.
AddAligned(sa, ma, sb, mb, e, c) ==
    IF sa # sb /\ c = 0 THEN Zero
    ELSE Round(IF sa = sb \/ c > 0 THEN sa ELSE sb, e,
               IF sa = sb THEN BAdd(ma, mb)
               ELSE IF c > 0 THEN BSub(ma, mb) ELSE BSub(mb, ma))

\* sa * ma * 2^e + b
AddShifted(sa, ma, b) ==
    AddAligned(sa, ma, b[1], b[3], b[2], BCmp(ma, b[3]))

\* a + b for a[2] >= b[2], both finite and not zero.
AddOrdered(a, b) ==
    IF a[2] - b[2] >= 56 THEN a
    ELSE AddShifted(a[1], BShl(a[3], a[2] - b[2]), b)

\* a + b when a or b is nan, an infinity or a zero: inf + -inf is nan;
\* -0 + -0 is -0 and every other sum of zeros +0.
AddSpecial(a, b) ==
    IF IsNaN(a) \/ IsNaN(b) THEN NaN
    ELSE IF IsInf(a) THEN IF IsInf(b) /\ a[1] # b[1] THEN NaN ELSE a
    ELSE IF IsInf(b) THEN b
    ELSE IF Is0(a) THEN IF Is0(b) /\ a[1] # b[1] THEN Zero ELSE b
    ELSE a

Add(a, b) ==
    IF Regular(a) /\ Regular(b)
    THEN AddOrdered(IF a[2] >= b[2] THEN a ELSE b,
                    IF a[2] >= b[2] THEN b ELSE a)
    ELSE AddSpecial(a, b)

Sub(a, b) == Add(a, Neg(b))

\* a * b when a or b is nan, an infinity or a zero: inf * 0 is nan; a zero
\* and an infinity have the sign of the product.
MulSpecial(a, b) ==
    IF IsNaN(a) \/ IsNaN(b) THEN NaN
    ELSE IF IsInf(a) \/ IsInf(b)
         THEN IF Is0(a) \/ Is0(b) THEN NaN ELSE Infinite(a[1] * b[1])
    ELSE Zeroed(a[1] * b[1])

Mul(a, b) ==
    IF Regular(a) /\ Regular(b)
    THEN Round(a[1] * b[1], a[2] + b[2], BMul(a[3], b[3]))
    ELSE MulSpecial(a, b)

\* s * ma * 2^e / mb, with ma shifted by k so that the quotient has 56
\* bits or more.
DivShifted(s, e, ma, mb, k) ==
    Round(s, e - k - 1, BSticky(BDiv(BShl(ma, k), mb)))

\* a / b when a or b is nan, an infinity or a zero: inf / inf and 0 / 0 are
\* nan, x / inf is a zero and x / 0 an infinity for the other x.
DivSpecial(a, b) ==
    IF IsNaN(a) \/ IsNaN(b) THEN NaN
    ELSE IF IsInf(a) THEN IF IsInf(b) THEN NaN ELSE Infinite(a[1] * b[1])
    ELSE IF IsInf(b) THEN Zeroed(a[1] * b[1])
    ELSE IF Is0(b) THEN IF Is0(a) THEN NaN ELSE Infinite(a[1] * b[1])
    ELSE Zeroed(a[1] * b[1])

\* a / b as numpy divides: a division by zero is a warning, no exception.
Div(a, b) ==
    IF Regular(a) /\ Regular(b)
    THEN DivShifted(a[1] * b[1], a[2] - b[2], a[3], b[3], 109 - BLen(a[3]))
    ELSE DivSpecial(a, b)

\* The double nearest to n / d: what the literal n/d reads as.
Lit(n, d) == Div(Float(n), Float(d))

\* The float literals of the source.
lit_1e_2 == Lit(1, 100)
lit_1e_3 == Lit(1, 1000)
lit_1e_8 == Lit(1, 100000000)
lit_0_9 == Lit(9, 10)
lit_0_99 == Lit(99, 100)
lit_0_999 == Lit(999, 1000)

\* What ** gives instead of a number when it raises.
ZeroDivisionError == <<0, 0, <<>>>>
OverflowError == <<0, 1, <<>>>>
IsError(p) == p[1] = 0

\* m^t for t >= 0
RECURSIVE BPow(_, _)
BPow(m, t) == IF t = 0 THEN <<1>> ELSE BMul(BPow(m, t - 1), m)

\* The four highest of the k lowest bits of m, as a number: the dropped
\* part of m in sixteenths of the last kept place.
Dropped(m, k) ==
    8 * BBit(m, k - 1) + 4 * BBit(m, k - 2) + 2 * BBit(m, k - 3)
        + BBit(m, k - 4)

\* A float power raises OverflowError when its result is out of range.
PowChecked(s, e, m, k, mode) ==
    LET p == RoundTo(mode, s, e, m, k)
    IN  IF IsInf(p) THEN OverflowError ELSE p

\* The doubles the C library's pow may return for the exact result
\* s * m * 2^e, of which k bits are dropped.  pow is accurate to a little
\* over half a unit in the last place and not correctly rounded: it gives
\* the nearest double, except that within a sixteenth of the middle between
\* two doubles it may give either of them.
PowRounded(s, e, m, k) ==
    IF k > 0 /\ Dropped(m, k) \in {7, 8}
    THEN {PowChecked(s, e, m, k, mode) : mode \in {"down", "up"}}
    ELSE {PowChecked(s, e, m, k, "nearest")}

PowExact(s, e, m) == PowRounded(s, e, m, DropBits(e, BLen(m)))

\* s / (d * 2^e) from the quotient 2^k / d with its remainder flag.
PowInverse(s, e, d, k) ==
    PowExact(s, -e - k - 1, BSticky(BDiv(BShl(<<1>>, k), d)))

\* s * (m * 2^e)^t for t # 0 and m > 0
PowOf(s, e, m, t) ==
    IF t > 0 THEN PowExact(s, e * t, BPow(m, t))
    ELSE PowInverse(s, e * (-t), BPow(m, -t), 53 * (-t) + 60)

\* b ** t for a Python float b and an int t, as the set of the values it
\* may give: x ** 0 is 1.0 for every x, nan included; a power of an
\* infinity is an infinity or a zero; 0.0 to a negative power raises
\* ZeroDivisionError; a result of an odd power has the sign of b.
Pow(b, t) ==
    IF t = 0 THEN {One}
    ELSE IF Regular(b) THEN PowOf(IF t % 2 = 1 THEN b[1] ELSE 1, b[2], b[3], t)
    ELSE IF IsNaN(b) THEN {NaN}
    ELSE LET s == IF t % 2 = 1 THEN b[1] ELSE 1
         IN  IF IsInf(b) THEN {IF t > 0 THEN Infinite(s) ELSE Zeroed(s)}
             ELSE {IF t > 0 THEN Zeroed(s) ELSE ZeroDivisionError}

\* sqrt(n * 2^e) from r = floor(sqrt(n)), for e even and n of 8 limbs.
SqrtRounded(e, n, r) ==
    Round(1, (e \div 2) - 1, BSticky([q |-> r, nz |-> BMul(r, r) # n]))

SqrtScaled(e, n) == SqrtRounded(e, n, BSqrt(n))

\* sqrt(m * 2^e), m shifted by k to 111 or 112 bits at an even exponent.
SqrtShifted(e, m, k) ==
    SqrtScaled(e - k - ((e - k) % 2), BShl(m, k + ((e - k) % 2)))

\* np.sqrt: the root of a negative number is nan (a warning, no
\* exception), the root of -0 is -0.
Sqrt(a) ==
    IF Regular(a) /\ a[1] > 0 THEN SqrtShifted(a[2], a[3], 111 - BLen(a[3]))
    ELSE IF Is0(a) \/ IsNaN(a) THEN a
    ELSE IF a[1] < 0 THEN NaN
    ELSE a

\* ------------------------------------------------------------------ arrays
\* Shape of the elementwise combination of arrays of lengths m and n under
\* numpy broadcasting: a length of 1 stretches to the other length, 0
\* included.  -1 when the shapes do not broadcast (ValueError), or when m
\* or n is itself the shape of a combination that does not.
BShape(m, n) ==
    IF m < 0 \/ n < 0 THEN -1
    ELSE IF m = n THEN m
    ELSE IF m = 1 THEN n
    ELSE IF n = 1 THEN m
    ELSE -1

\* Element i of a once a is broadcast to a longer shape.
At(a, i) == IF Len(a) = 1 THEN a[1] ELSE a[i]

\* An array holds the values of its elements: an elementwise operation
\* computes them all when it is applied.
ndarray(f) == f \o <<>>

\* array + array, array - array, array / array
AAdd(a, b) ==
    ndarray([i \in 1..BShape(Len(a), Len(b)) |-> Add(At(a, i), At(b, i))])
ASub(a, b) ==
    ndarray([i \in 1..BShape(Len(a), Len(b)) |-> Sub(At(a, i), At(b, i))])
ADiv(a, b) ==
    ndarray([i \in 1..BShape(Len(a), Len(b)) |-> Div(At(a, i), At(b, i))])

\* scalar * array
Scale(c, a) == ndarray([i \in 1..Len(a) |-> Mul(c, a[i])])
\* array / scalar
Over(a, c) == ndarray([i \in 1..Len(a) |-> Div(a[i], c)])
\* array + scalar
Plus(a, c) == ndarray([i \in 1..Len(a) |-> Add(a[i], c)])
\* np.power(x, 2) for one element: numpy gives the C library's pow(x, 2.0),
\* or x * x where its loop squares instead; the values it may give.  A
\* result out of range is an infinity.
Power2(x) == {IF p = OverflowError THEN Inf ELSE p : p \in Pow(x, 2)}

\* np.power(a, 2): the arrays it may give.
Square(a) ==
    LET values == UNION {Power2(a[i]) : i \in 1..Len(a)}
    IN  {ndarray(f) : f \in {g \in [1..Len(a) -> values] :
                                \A i \in 1..Len(a) : g[i] \in Power2(a[i])}}
\* np.sqrt(a)
ASqrt(a) == ndarray([i \in 1..Len(a) |-> Sqrt(a[i])])

\* A wrong initialiser: running state starts at one.
ones_like(a) == ndarray([i \in 1..Len(a) |-> One])

zeros_like(a) == ndarray([i \in 1..Len(a) |-> Zero])

\* ---------------------------------------------------- configuration record
\* A dict is a function from option names to values.
EmptyDict == [k \in {} |-> Zero]

\* A default that overwrites what the caller supplied (d[key] = value).
setdefault_overwrite(d, key, value) ==
    [k \in DOMAIN d \cup {key} |-> IF k = key THEN value ELSE d[k]]

\* dict.setdefault(key, value): an existing entry is left as it is.
setdefault(d, key, value) ==
    IF key \in DOMAIN d THEN d
    ELSE [k \in DOMAIN d \cup {key} |-> IF k = key THEN value ELSE d[k]]

\* A store that was left out.
setitem_dropped(d, key, value) == d

\* d[key] = value
setitem(d, key, value) ==
    [k \in DOMAIN d \cup {key} |-> IF k = key THEN value ELSE d[k]]

\* A rule that keeps the dict it worked on last (a module-level variable, or
\* a dict made once as the default argument) and goes on with it when the
\* caller passes none: a parameter that has no record had no call that
\* returned, so that dict is the record of the other parameter.
enter_persistent(arg) ==
    IF ~arg.none THEN arg.dict
    ELSE IF other.absent THEN EmptyDict ELSE other.config

\* `if config is None: config = {}`: a dict made by this call.  arg is
\* [none |-> the caller passed no config, dict |-> the dict passed].
enter(arg) == IF arg.none THEN EmptyDict ELSE arg.dict

\* Option names that hold arrays of running state.
ArrayKeys == {"velocity", "cache", "m", "v"}

\* Contents, when the call returns, of the array objects the record held as
\* running state when the update began: no rule writes into them.
Held(resolved) ==
    [k \in ArrayKeys \cap DOMAIN resolved |-> resolved[k]]

\* What a call leaves behind.  ok: it returned (FALSE: it raised error);
\* next_w: the array returned; config: the record after the call; resolved:
\* the record after the setdefault lines; w_buf: contents of the array object
\* passed as w; held: see Held; loc: the locals of the update.
Returned(next_w, cfg, resolved, w_buf, held, loc) ==
    [loc |-> loc, ok |-> TRUE, error |-> "", next_w |-> next_w, config |-> cfg,
     resolved |-> resolved, w_buf |-> w_buf, held |-> held]

\* The call raised after the setdefault lines and before any store.
Raise(error, resolved, w_buf) ==
    [ok |-> FALSE, error |-> error, next_w |-> <<>>, config |-> resolved,
     resolved |-> resolved, w_buf |-> w_buf, held |-> Held(resolved),
     loc |-> EmptyDict]

\* Arrays whose shapes do not broadcast.
Raised(resolved, w_buf) == Raise("ValueError", resolved, w_buf)

\* The same for a rule that updates w in place (w -= step): the array
\* passed as w holds next_w.
InPlace(next_w, cfg, resolved, loc) ==
    Returned(next_w, cfg, resolved, next_w, Held(resolved), loc)

\* -------------------------------------------------------------------- sgd
\* w -= config['learning_rate'] * dw; c is the record after the setdefault
\* lines.  The step must broadcast to w's own shape.
sgd_update(w_, dw, c) ==
    LET step == Scale(c["learning_rate"], dw)
    IN  IF BShape(Len(w_), Len(step)) = Len(w_)
        THEN InPlace(ASub(w_, step), c, c, "step" :> step)
        ELSE Raised(c, w_)

sgd(w_, dw, arg) ==
    sgd_update(w_, dw, setdefault(enter(arg), "learning_rate", lit_1e_2))

\* ----------------------------------------------------------- sgd_momentum
\* A velocity update that forgets the momentum factor.
velocity_undamped(mu, lr, v, dw) == ASub(v, Scale(lr, dw))

\* v = mu * v - lr * dw
velocity(mu, lr, v, dw) == ASub(Scale(mu, v), Scale(lr, dw))

\* next_w = w + v; config['velocity'] = v
sgd_momentum_store(w_, c, v) ==
    Returned(AAdd(w_, v), setitem(c, "velocity", v), c, w_, Held(c), "v" :> v)

\* The update for the record c after the setdefault lines.
sgd_momentum_update(w_, dw, c) ==
    LET s == BShape(Len(c["velocity"]), Len(dw))
    IN  IF s >= 0 /\ BShape(Len(w_), s) >= 0
        THEN sgd_momentum_store(w_, c,
                 velocity(c["momentum"], c["learning_rate"], c["velocity"], dw))
        ELSE Raised(c, w_)

sgd_momentum(w_, dw, arg) ==
    LET c1 == setdefault(enter(arg), "learning_rate", lit_1e_2)
        c2 == setdefault(c1, "momentum", lit_0_9)
    IN  sgd_momentum_update(w_, dw, setdefault(c2, "velocity", zeros_like(w_)))

\* ------------------------------------------------------ nesterov_momentum
\* The classical step, without the look-ahead correction.
lookahead_plain(w_, mu, prev_v, v) == AAdd(w_, v)

\* next_w = w - mu * prev_v + (1 + mu) * v
lookahead(w_, mu, prev_v, v) ==
    AAdd(ASub(w_, Scale(mu, prev_v)), Scale(Add(One, mu), v))

\* next_w from prev_v and v; config['velocity'] = v.  held is what the
\* array that was the record's velocity holds afterwards.
nesterov_store(w_, c, prev_v, v, held) ==
    Returned(lookahead(w_, c["momentum"], prev_v, v), setitem(c, "velocity", v),
             c, w_, held, "prev_v" :> prev_v @@ "v" :> v)

\* prev_v bound to the velocity array itself, which is then updated in place
\* (v *= mu; v -= lr * dw): prev_v and the caller's array both read v'.
nesterov_aliased(w_, dw, arg) ==
    LET c1 == setdefault(enter(arg), "learning_rate", lit_1e_2)
        c2 == setdefault(c1, "momentum", lit_0_9)
        c == setdefault(c2, "velocity", zeros_like(w_))
        v == ASub(Scale(c["momentum"], c["velocity"]),
                  Scale(c["learning_rate"], dw))
    IN  IF BShape(Len(c["velocity"]), Len(dw)) = Len(c["velocity"])
           /\ BShape(Len(w_), Len(c["velocity"])) >= 0
        THEN nesterov_store(w_, c, v, v, "velocity" :> v)
        ELSE Raised(c, w_)

\* The update for the record c after the setdefault lines: prev_v is a copy
\* of the velocity, v a new array.
nesterov_update(w_, dw, c) ==
    LET prev_v == c["velocity"]
        s == BShape(Len(prev_v), Len(dw))
    IN  IF BShape(BShape(Len(w_), Len(prev_v)), s) >= 0
        THEN nesterov_store(w_, c, prev_v,
                 ASub(Scale(c["momentum"], prev_v),
                      Scale(c["learning_rate"], dw)),
                 Held(c))
        ELSE Raised(c, w_)

nesterov_momentum(w_, dw, arg) ==
    LET c1 == setdefault(enter(arg), "learning_rate", lit_1e_2)
        c2 == setdefault(c1, "momentum", lit_0_9)
    IN  nesterov_update(w_, dw, setdefault(c2, "velocity", zeros_like(w_)))

\* ---------------------------------------------------------------- rmsprop
\* epsilon used as a floor of the root instead of being added to it.
smoothed_floor(root, eps) ==
    [i \in 1..Len(root) |->
        IF Sub(root[i], eps)[1] < 0 THEN eps ELSE root[i]]

\* np.sqrt(x) + eps, the denominator of the adaptive step
smoothed(root, eps) == Plus(root, eps)

\* w -= step, with step = num / den
rmsprop_apply(w_, c, cache, num, den) ==
    LET step == ADiv(num, den)
    IN  InPlace(ASub(w_, step), setitem(c, "cache", cache), c,
                "cache" :> cache @@ "den" :> den @@ "step" :> step)

\* w -= lr * dw / (np.sqrt(cache) + eps); config['cache'] = cache
rmsprop_store(w_, dw, c, cache) ==
    rmsprop_apply(w_, c, cache, Scale(c["learning_rate"], dw),
                  smoothed(ASqrt(cache), c["epsilon"]))

\* The update for the record c after the setdefault lines: the outcomes
\* the call may have, one for each value of np.power(dw, 2).
rmsprop_update(w_, dw, c) ==
    LET s == BShape(Len(c["cache"]), Len(dw))
        beta == c["decay_rate"]
    IN  IF BShape(Len(w_), s) = Len(w_)
        THEN {rmsprop_store(w_, dw, c,
                  AAdd(Scale(beta, c["cache"]),
                       Scale(Sub(One, beta), sq))) : sq \in Square(dw)}
        ELSE {Raised(c, w_)}

rmsprop(w_, dw, arg) ==
    LET c1 == setdefault(enter(arg), "learning_rate", lit_1e_2)
        c2 == setdefault(c1, "decay_rate", lit_0_99)
        c3 == setdefault(c2, "epsilon", lit_1e_8)
    IN  rmsprop_update(w_, dw, setdefault(c3, "cache", zeros_like(w_)))

\* ------------------------------------------------------------------- adam
\* The exception that a ** which raised stands for.
ErrorName(p) ==
    IF p = ZeroDivisionError THEN "ZeroDivisionError" ELSE "OverflowError"

\* The bias correction read after the counter was incremented.
bias_post_increment(beta, t) ==
    {IF IsError(p) THEN p ELSE Sub(One, p) : p \in Pow(beta, t + 1)}

\* 1 - beta ** t: the values it may have, an exception of ** being kept
\* as it is.
bias(beta, t) == {IF IsError(p) THEN p ELSE Sub(One, p) : p \in Pow(beta, t)}

\* w -= step, with step = num / den; the stores into config.
adam_apply(w_, c, loc, num, den) ==
    LET step == ADiv(num, den)
    IN  InPlace(ASub(w_, step),
                setitem(setitem(setitem(c, "m", loc["m"]), "v", loc["v"]),
                        "t", c["t"] + 1),
                c, loc @@ "den" :> den @@ "step" :> step)

\* w -= lr * mt / (np.sqrt(vt) + eps)
adam_step(w_, c, loc) ==
    adam_apply(w_, c, loc, Scale(c["learning_rate"], loc["mt"]),
               smoothed(ASqrt(loc["vt"]), c["epsilon"]))

\* mt = m / (1 - beta1 ** t); vt = v / (1 - beta2 ** t), with d1 and d2
\* the two denominators: an exception of ** ends the call there, and the
\* step must broadcast to w's own shape.
adam_correct(w_, c, m, v, d1, d2) ==
    IF IsError(d1) THEN Raise(ErrorName(d1), c, w_)
    ELSE IF IsError(d2) THEN Raise(ErrorName(d2), c, w_)
    ELSE IF BShape(Len(w_), BShape(Len(m), Len(v))) # Len(w_) THEN Raised(c, w_)
    ELSE adam_step(w_, c,
              "m" :> m @@ "v" :> v @@ "mt" :> Over(m, d1) @@ "vt" :> Over(v, d2)
              @@ "d1" :> <<d1>> @@ "d2" :> <<d2>> @@ "t" :> <<Float(c["t"])>>)

\* The denominators of the two bias corrections of one call: equal
\* operands of ** give equal results.
biases(beta1, beta2, t) ==
    {d \in bias(beta1, t) \X bias(beta2, t) : beta1 = beta2 => d[1] = d[2]}

\* The update for the record c after the setdefault lines: the outcomes
\* the call may have.
adam_update(w_, dw, c) ==
    LET beta1 == c["beta1"]
        beta2 == c["beta2"]
    IN  IF BShape(Len(c["m"]), Len(dw)) < 0 \/ BShape(Len(c["v"]), Len(dw)) < 0
        THEN {Raised(c, w_)}
        ELSE {adam_correct(w_, c,
                  AAdd(Scale(beta1, c["m"]), Scale(Sub(One, beta1), dw)),
                  AAdd(Scale(beta2, c["v"]), Scale(Sub(One, beta2), sq)),
                  d[1], d[2]) : d \in biases(beta1, beta2, c["t"]),
                                sq \in Square(dw)}

adam(w_, dw, arg) ==
    LET c1 == setdefault(enter(arg), "learning_rate", lit_1e_3)
        c2 == setdefault(c1, "beta1", lit_0_9)
        c3 == setdefault(c2, "beta2", lit_0_999)
        c4 == setdefault(c3, "epsilon", lit_1e_8)
        c5 == setdefault(c4, "m", zeros_like(w_))
        c6 == setdefault(c5, "v", zeros_like(w_))
    IN  adam_update(w_, dw, setdefault(c6, "t", 1))

\* ----------------------------------------------------------- the caller
Rules == {"sgd", "sgd_momentum", "nesterov_momentum", "rmsprop", "adam"}

Lens == 1..MaxLen

Const(n, x) == ndarray([i \in 1..n |-> Float(x)])
Ramp(n) == ndarray([i \in 1..n |-> Float(i)])
\* A gradient with elements that are zero and elements that are not.
Mixed(n) == ndarray([i \in 1..n |-> IF i % 2 = 1 THEN Float(-11) ELSE Zero])

\* Parameter arrays the caller starts from, and the gradients it passes.
Params(n) == {Ramp(n)}
Grads(n) == {Const(n, 0), Mixed(n)}

\* Values the caller supplies for an option, when it supplies one.
Rates == {Lit(1, 10)}
Momenta == {Zero, Lit(1, 2)}
Decays == {Lit(1, 2)}
Epsilons == {Lit(1, 1000)}
Counters == {2}

\* The records with option key missing or set to a value of vs.
Partial(key, vs) == {EmptyDict} \cup {key :> x : x \in vs}

\* The hyperparameters a caller may hand to rule r: each one missing or
\* supplied (for adam, at most one of them supplied).
Hypers(r) ==
    LET lr == Partial("learning_rate", Rates)
    IN  CASE r = "sgd" -> lr
          [] r \in {"sgd_momentum", "nesterov_momentum"} ->
                {a @@ b : a \in lr, b \in Partial("momentum", Momenta)}
          [] r = "rmsprop" ->
                {a @@ b @@ c : a \in lr, b \in Partial("decay_rate", Decays),
                               c \in Partial("epsilon", Epsilons)}
          [] r = "adam" ->
                lr \cup Partial("beta1", Decays) \cup Partial("beta2", Decays)
                   \cup Partial("epsilon", Epsilons)

\* The running state a caller may hand to rule r, with arrays of the
\* lengths ns: each entry missing or supplied.
States(r, ns) ==
    LET arrays == {Ramp(n) : n \in ns}
    IN  CASE r = "sgd" -> {EmptyDict}
          [] r \in {"sgd_momentum", "nesterov_momentum"} ->
                Partial("velocity", arrays)
          [] r = "rmsprop" -> Partial("cache", arrays)
          [] r = "adam" ->
                {a @@ b @@ c : a \in Partial("m", arrays),
                               b \in Partial("v", arrays),
                               c \in Partial("t", Counters)}

\* The partial records a caller may hand to rule r.
Configs(r, ns) == {h @@ s : h \in Hypers(r), s \in States(r, ns)}

\* The caller's training loop: next_w replaces w and the returned record
\* replaces the record; a call that raised leaves the caller with its
\* arrays and with the record as the call left it.
Step(dw, out) ==
    /\ w' = IF out.ok THEN out.next_w ELSE out.w_buf
    /\ absent' = (absent /\ ~out.ok)
    /\ config' = IF absent /\ ~out.ok THEN config ELSE out.config
    /\ calls' = calls + 1
    /\ hist' = SubSeq(<<[w |-> w, dw |-> dw, none |-> absent, config |-> config,
                         out |-> out]>> \o hist, 1,
                      IF Len(hist) = 0 THEN 1 ELSE 2)
    /\ UNCHANGED <<rule, other>>

Arg == [none |-> absent, dict |-> config]

\* The caller trains with rule r and has calls left to make.
Calling(r) == rule = r /\ calls < MaxCalls

SgdCall(dw) == Calling("sgd") /\ Step(dw, sgd(w, dw, Arg))

MomentumCall(dw) ==
    Calling("sgd_momentum") /\ Step(dw, sgd_momentum(w, dw, Arg))

NesterovCall(dw) ==
    Calling("nesterov_momentum") /\ Step(dw, nesterov_momentum(w, dw, Arg))

\* rmsprop has the outcomes that np.power allows.
RmspropCall(dw) ==
    Calling("rmsprop") /\ \E out \in rmsprop(w, dw, Arg) : Step(dw, out)

\* adam has the outcomes that np.power and the C library's ** allow.
AdamCall(dw) ==
    Calling("adam") /\ \E out \in adam(w, dw, Arg) : Step(dw, out)

\* The caller drops the record and goes on with an empty one, or with none.
NewRecord ==
    /\ calls > 0 /\ calls < MaxCalls
    /\ ~absent
    /\ absent' \in BOOLEAN
    /\ config' = EmptyDict
    /\ UNCHANGED <<rule, w, other, calls, hist>>

InitWith(matching) ==
    /\ rule \in Rules
    /\ w \in UNION {Params(n) : n \in Lens}
    /\ absent \in BOOLEAN
    /\ config \in IF absent THEN {EmptyDict}
                 ELSE IF matching THEN Configs(rule, {Len(w)})
                 ELSE States(rule, Lens)
    /\ calls = 0
    /\ hist = <<>>

\* The other parameter at the start: an array and a record of its own with
\* the values that w and the record have; none: it has no record.
Twin(none) == [w |-> w, absent |-> none, config |-> config]

\* The interface as documented: dw and the state arrays have w's shape.
Init == InitWith(TRUE) /\ other = Twin(absent)

\* Callers that step one of the two parameters and may change its record.
Next ==
    \/ \E dw \in Grads(Len(w)) : SgdCall(dw)
    \/ \E dw \in Grads(Len(w)) : MomentumCall(dw)
    \/ \E dw \in Grads(Len(w)) : NesterovCall(dw)
    \/ \E dw \in Grads(Len(w)) : RmspropCall(dw)
    \/ \E dw \in Grads(Len(w)) : AdamCall(dw)
    \/ NewRecord

Spec == Init /\ [][Next]_vars

\* Callers that pass arrays of any shapes.
InitShapes == InitWith(FALSE) /\ other = Twin(absent)

AnyGrads == UNION {Grads(n) : n \in Lens}

NextShapes ==
    \/ \E dw \in AnyGrads : SgdCall(dw)
    \/ \E dw \in AnyGrads : MomentumCall(dw)
    \/ \E dw \in AnyGrads : NesterovCall(dw)
    \/ \E dw \in AnyGrads : RmspropCall(dw)
    \/ \E dw \in AnyGrads : AdamCall(dw)
    \/ NewRecord

SpecShapes == InitShapes /\ [][NextShapes]_vars

\* Callers that step both parameters, in any order.  Where the record is
\* empty, each parameter starts with an empty dict or with none.
InitTwins ==
    /\ InitWith(TRUE)
    /\ \E none \in BOOLEAN : (none => config = EmptyDict) /\ other = Twin(none)

\* The caller turns to its other parameter.
Switch ==
    /\ calls < MaxCalls
    /\ w' = other.w
    /\ absent' = other.absent
    /\ config' = other.config
    /\ other' = [w |-> w, absent |-> absent, config |-> config]
    /\ UNCHANGED <<rule, calls, hist>>

NextTwins ==
    \/ \E dw \in Grads(Len(w)) : SgdCall(dw)
    \/ \E dw \in Grads(Len(w)) : MomentumCall(dw)
    \/ \E dw \in Grads(Len(w)) : NesterovCall(dw)
    \/ \E dw \in Grads(Len(w)) : RmspropCall(dw)
    \/ \E dw \in Grads(Len(w)) : AdamCall(dw)
    \/ Switch

SpecTwins == InitTwins /\ [][NextTwins]_vars

\* ------------------------------------------------------------- properties
Called == Len(hist) > 0
Last == hist[1]
Prev == hist[2]

\* The record the last call worked on, as the caller passed it.
GivenTo(h) == IF h.none THEN EmptyDict ELSE h.config

\* The last two calls are consecutive steps on one record: the second was
\* given the w and the record the first returned.
Threaded ==
    /\ Len(hist) = 2
    /\ Prev.out.ok
    /\ ~Last.none
    /\ Last.config = Prev.out.config
    /\ Last.w = Prev.out.next_w

IsZero(a) == \A i \in DOMAIN a : Is0(a[i])

\* |a| elementwise, a > 0 and a <= b on doubles.
Magnitude(a) == [i \in DOMAIN a |-> IF a[i][1] < 0 THEN Neg(a[i]) ELSE a[i]]
Positive(a) == a[1] > 0 /\ ~Is0(a) /\ ~IsNaN(a)
Leq(a, b) == ~IsNaN(Sub(a, b)) /\ ~Positive(Sub(a, b))

\* 2^-48: 32 units in the last place of a double in [1, 2).
Tolerance == Mul(Lit(1, 16777216), Lit(1, 16777216))

\* The arrays a and b are equal up to rounding: elementwise they differ by
\* at most Tolerance times the magnitude s.
Close(a, b, s) ==
    /\ DOMAIN a = DOMAIN b
    /\ \A i \in DOMAIN a :
          Leq(Magnitude(<<Sub(a[i], b[i])>>)[1], Mul(Tolerance, s[i]))

\* What C1 says of the last adam call: both bias-correction denominators
\* are computed from the t the record held before the call (1 when it held
\* none), m_hat = m / (1 - beta1^t), and t + 1 is stored; the first call on
\* an empty record corrects with exponent 1 and has m_hat = dw (exactly, or
\* up to rounding); each further call on the returned record corrects with
\* the next exponent, so that t = 3 after two calls.
AdamCounter(exactly) ==
    (Called /\ rule = "adam" /\ Last.out.ok) =>
        LET o == Last.out
            given == GivenTo(Last)
            t0 == IF "t" \in DOMAIN given THEN given["t"] ELSE 1
        IN  /\ o.loc["t"] = <<Float(t0)>>
            /\ \E p \in Pow(o.resolved["beta1"], t0) :
                  o.loc["d1"] = <<Sub(One, p)>>
            /\ \E p \in Pow(o.resolved["beta2"], t0) :
                  o.loc["d2"] = <<Sub(One, p)>>
            /\ o.loc["mt"] = Over(o.loc["m"], o.loc["d1"][1])
            /\ o.loc["vt"] = Over(o.loc["v"], o.loc["d2"][1])
            /\ o.config["t"] = t0 + 1
            /\ given = EmptyDict =>
                  /\ t0 = 1
                  /\ IF exactly THEN o.loc["mt"] = Last.dw
                     ELSE Close(o.loc["mt"], Last.dw, Magnitude(Last.dw))
            /\ (Threaded /\ GivenTo(Prev) = EmptyDict) =>
                  /\ t0 = 2
                  /\ o.config["t"] = 3

\* C1 as stated: adam reads t before the bias correction and increments it
\* once per call, t = 3 after two calls from an empty record, and on the
\* first call m_hat equals dw.
C1_AdamCounterExact == AdamCounter(TRUE)

\* C1, amended: adam reads t before the bias correction and increments it
\* once per call, t = 3 after two calls from an empty record, and on the
\* first call m_hat = ((1 - beta1)*dw) / (1 - beta1^1) equals dw up to
\* floating-point rounding.
C1_AdamCounter == AdamCounter(FALSE)

\* Two adam calls in a row, the first on an empty record, with a gradient
\* that is not zero.
C1_Witness ==
    /\ rule = "adam"
    /\ Threaded
    /\ Last.out.ok
    /\ GivenTo(Prev) = EmptyDict
    /\ ~IsZero(Prev.dw)
    /\ ~IsZero(Last.dw)

\* The options of each rule and their documented defaults.
Hyper == {"learning_rate", "momentum", "decay_rate", "beta1", "beta2",
          "epsilon"}

Options(r) ==
    CASE r = "sgd" -> {"learning_rate"}
      [] r \in {"sgd_momentum", "nesterov_momentum"} ->
            {"learning_rate", "momentum", "velocity"}
      [] r = "rmsprop" -> {"learning_rate", "decay_rate", "epsilon", "cache"}
      [] r = "adam" ->
            {"learning_rate", "beta1", "beta2", "epsilon", "m", "v", "t"}

Documented(r, k, shape) ==
    CASE k = "learning_rate" -> IF r = "adam" THEN lit_1e_3 ELSE lit_1e_2
      [] k = "momentum" -> lit_0_9
      [] k = "decay_rate" -> lit_0_99
      [] k = "beta1" -> lit_0_9
      [] k = "beta2" -> lit_0_999
      [] k = "epsilon" -> lit_1e_8
      [] k \in {"velocity", "cache", "m", "v"} -> [i \in 1..shape |-> Zero]
      [] k = "t" -> 1

\* C2: default resolution leaves every supplied option at its value, sets
\* every missing option of the rule to its documented default and adds no
\* other key; the call that follows leaves the hyperparameters as resolved,
\* whether it returns or raises.
C2_Defaults ==
    Called =>
        LET given == GivenTo(Last)
            res == Last.out.resolved
        IN  /\ DOMAIN res = DOMAIN given \cup Options(rule)
            /\ \A k \in DOMAIN given : res[k] = given[k]
            /\ \A k \in Options(rule) \ DOMAIN given :
                  res[k] = Documented(rule, k, Len(Last.w))
            /\ DOMAIN Last.out.config = DOMAIN res
            /\ \A k \in Hyper \cap DOMAIN res : Last.out.config[k] = res[k]

\* A call of adam on a record that supplies some options and lacks others.
C2_Witness ==
    /\ Called
    /\ rule = "adam"
    /\ Last.out.ok
    /\ ~Last.none
    /\ DOMAIN Last.config = {"beta1", "v"}

\* C3: with momentum = 0, sgd_momentum and nesterov_momentum return the
\* next_w that sgd returns for the same w, dw and learning rate, on every
\* step, whatever velocity the record holds.
C3_ZeroMomentumIsSgd ==
    (/\ Called
     /\ rule \in {"sgd_momentum", "nesterov_momentum"}
     /\ Last.out.ok
     /\ Is0(Last.out.resolved["momentum"])) =>
        LET plain == sgd(Last.w, Last.dw,
                         [none |-> FALSE,
                          dict |-> "learning_rate" :>
                                       Last.out.resolved["learning_rate"]])
        IN  plain.ok /\ Last.out.next_w = plain.next_w

\* A second step with momentum = 0 on a record whose stored velocity is not
\* zero, with a gradient that is not zero.
C3_Witness ==
    /\ rule = "sgd_momentum"
    /\ Threaded
    /\ Last.out.ok
    /\ Is0(Last.config["momentum"])
    /\ ~IsZero(Last.config["velocity"])
    /\ ~IsZero(Last.dw)

\* The arrays a call was given: w, dw and the state arrays of the record.
Shapes(h) ==
    {Len(h.w), Len(h.dw)}
        \cup {Len(GivenTo(h)[k]) : k \in ArrayKeys \cap DOMAIN GivenTo(h)}

\* C4: a call whose w, dw and state arrays do not all have one shape is
\* rejected.
C4_ShapeMismatchRejected ==
    (Called /\ Cardinality(Shapes(Last)) > 1) => ~Last.out.ok

ZeroGradientTwice ==
    /\ rule \in {"sgd", "sgd_momentum", "nesterov_momentum"}
    /\ Threaded
    /\ Last.out.ok
    /\ IsZero(Prev.dw)
    /\ IsZero(Last.dw)

\* C5 as stated: two calls in a row with a zero gradient return the w given
\* to the first call, whatever the record holds.
C5_NoDriftAnyRecord ==
    ZeroGradientTwice => Last.out.next_w = Prev.w

\* The first of the two calls found no velocity, or a zero one.
StartsAtRest ==
    "velocity" \in DOMAIN GivenTo(Prev) => IsZero(GivenTo(Prev)["velocity"])

\* C5, amended: two calls in a row with a zero gradient return the w given
\* to the first call when the record given to the first call holds no
\* velocity or a zero velocity.
C5_NoDriftAtRest ==
    (ZeroGradientTwice /\ StartsAtRest) => Last.out.next_w = Prev.w

\* Two zero-gradient momentum steps from a record without velocity, on a
\* parameter that is not zero.
C5_Witness ==
    /\ ZeroGradientTwice
    /\ rule = "sgd_momentum"
    /\ StartsAtRest
    /\ ~IsZero(Prev.w)

\* C6 (dw^2 is a value that np.power(dw, 2) may give):
\* rmsprop stores cache' = decay_rate*cache + (1 - decay_rate)*dw^2 and
\* steps by learning_rate*dw / (sqrt(cache') + epsilon); from a record
\* without cache, cache' = (1 - decay_rate)*dw^2; an element whose gradient
\* and cache are zero keeps its value, over the denominator epsilon > 0.
\* The same holds in adam for an element whose gradient, m and v are zero.
C6_EpsilonAdded ==
    (Called /\ Last.out.ok) =>
        LET o == Last.out
            r == o.resolved
            dw == Last.dw
            eps == r["epsilon"]
        IN  /\ rule = "rmsprop" =>
                \A i \in DOMAIN Last.w : \E sq \in Power2(dw[i]) :
                    LET c1 == o.config["cache"][i]
                        rest == Mul(Sub(One, r["decay_rate"]), sq)
                    IN  /\ c1 = Add(Mul(r["decay_rate"], r["cache"][i]), rest)
                        /\ o.loc["step"][i] =
                              Div(Mul(r["learning_rate"], dw[i]),
                                  Add(Sqrt(c1), eps))
                        /\ o.next_w[i] = Sub(Last.w[i], o.loc["step"][i])
                        /\ "cache" \notin DOMAIN GivenTo(Last) => c1 = rest
                        /\ (Is0(dw[i]) /\ Is0(r["cache"][i])) =>
                              /\ o.loc["den"][i] = eps
                              /\ Positive(eps)
                              /\ Is0(o.loc["step"][i])
                              /\ o.next_w[i] = Last.w[i]
            /\ rule = "adam" =>
                \A i \in DOMAIN Last.w :
                    (Is0(dw[i]) /\ Is0(r["m"][i]) /\ Is0(r["v"][i])) =>
                        /\ o.loc["den"][i] = eps
                        /\ Positive(eps)
                        /\ Is0(o.loc["step"][i])
                        /\ o.next_w[i] = Last.w[i]

\* A first rmsprop step, on a record without cache, whose gradient has an
\* element that is zero and one that is not.
C6_Witness ==
    /\ Called
    /\ rule = "rmsprop"
    /\ Last.out.ok
    /\ "cache" \notin DOMAIN GivenTo(Last)
    /\ Last.dw = Mixed(2)
    /\ Last.out.next_w # Last.w
    /\ ~IsZero(Last.w)

\* The returned next_w and record of a call, or the exception it raised.
Result(h) ==
    [ok |-> h.out.ok, error |-> h.out.error, next_w |-> h.out.next_w,
     config |-> h.out.config]

\* The last two calls were given equal values of w, dw and the record, no
\* record counting as an empty one.
EqualInputs ==
    /\ Len(hist) = 2
    /\ Last.w = Prev.w
    /\ Last.dw = Prev.dw
    /\ DOMAIN GivenTo(Last) = DOMAIN GivenTo(Prev)
    /\ GivenTo(Last) = GivenTo(Prev)

VelocityMatchesStep(exactly) ==
    (Called /\ rule = "sgd_momentum" /\ Last.out.ok) =>
        LET o == Last.out
            r == o.resolved
            moved == ASub(o.next_w, Last.w)
        IN  /\ o.config["velocity"] =
                  ASub(Scale(r["momentum"], r["velocity"]),
                       Scale(r["learning_rate"], Last.dw))
            /\ o.config["velocity"] = o.loc["v"]
            /\ o.next_w = AAdd(Last.w, o.config["velocity"])
            /\ IF exactly THEN moved = o.config["velocity"]
               ELSE Close(moved, o.config["velocity"],
                          AAdd(Magnitude(Last.w), Magnitude(o.next_w)))

\* C8 as stated: after sgd_momentum the record's velocity is the v' that
\* produced next_w, and next_w - w_in = velocity.
C8_VelocityIsDifference == VelocityMatchesStep(TRUE)

\* C8, amended: after sgd_momentum the record's velocity is the v' that
\* produced next_w: next_w is the floating-point sum w_in + velocity, and
\* next_w - w_in equals the velocity up to the rounding of that sum.
C8_VelocityMatchesStep == VelocityMatchesStep(FALSE)

\* A second momentum step, with a gradient and a stored velocity that are
\* not zero.
C8_Witness ==
    /\ rule = "sgd_momentum"
    /\ Threaded
    /\ Last.out.ok
    /\ ~IsZero(Last.dw)
    /\ ~IsZero(Last.config["velocity"])
    /\ Last.out.config["velocity"] # Last.config["velocity"]

\* C9: nesterov_momentum stores v' = momentum*v_prev - learning_rate*dw and
\* returns w - momentum*v_prev + (1 + momentum)*v', where v_prev is the
\* velocity the record held before the call; the array that held it still
\* holds it after the call.
C9_NesterovSnapshot ==
    (Called /\ rule = "nesterov_momentum" /\ Last.out.ok) =>
        LET o == Last.out
            r == o.resolved
            mu == r["momentum"]
            given == GivenTo(Last)
            v_prev == IF "velocity" \in DOMAIN given THEN given["velocity"]
                      ELSE zeros_like(Last.w)
            v1 == ASub(Scale(mu, v_prev), Scale(r["learning_rate"], Last.dw))
        IN  /\ o.config["velocity"] = v1
            /\ o.loc["prev_v"] = v_prev
            /\ o.next_w = AAdd(ASub(Last.w, Scale(mu, v_prev)),
                               Scale(Add(One, mu), v1))
            /\ o.held["velocity"] = v_prev

\* A nesterov step on a record with a velocity and a momentum that are not
\* zero, which changes the velocity.
C9_Witness ==
    /\ Called
    /\ rule = "nesterov_momentum"
    /\ Last.out.ok
    /\ "velocity" \in DOMAIN GivenTo(Last)
    /\ ~IsZero(GivenTo(Last)["velocity"])
    /\ ~Is0(Last.out.resolved["momentum"])
    /\ Last.out.config["velocity"] # GivenTo(Last)["velocity"]

\* The textbook rule from the iterate x and velocity v, with g the gradient
\* at the look-ahead point x + mu*v.
Textbook(x, v, mu, lr, g) ==
    LET v1 == ASub(Scale(mu, v), Scale(lr, g))
    IN  [v |-> v1, x |-> AAdd(x, v1)]

\* The textbook step that a nesterov_momentum call h stands for: h.w is the
\* look-ahead point x + mu*v.
TextbookOf(h) ==
    LET r == h.out.resolved
    IN  Textbook(ASub(h.w, Scale(r["momentum"], r["velocity"])),
                 r["velocity"], r["momentum"], r["learning_rate"], h.dw)

\* a = b, or a and b equal up to rounding at the magnitude s.
Same(exactly, a, b, s) == IF exactly THEN a = b ELSE Close(a, b, s)

\* What C10 says of the last nesterov_momentum call, with w the look-ahead
\* point x + momentum*v and dw the gradient there: the velocity stored is
\* the textbook v', next_w = x' + momentum*v' = w - learning_rate*dw +
\* momentum*v', and on the next step of the record the iterate behind w is
\* the textbook x' (the equalities of positions exactly, or up to rounding).
NesterovIsLookAhead(exactly) ==
    (Called /\ rule = "nesterov_momentum" /\ Last.out.ok) =>
        LET o == Last.out
            r == o.resolved
            mu == r["momentum"]
            tb == TextbookOf(Last)
            size == AAdd(AAdd(Magnitude(Last.w), Magnitude(r["velocity"])),
                         AAdd(Magnitude(tb.v), Magnitude(tb.v)))
        IN  /\ o.config["velocity"] = tb.v
            /\ Same(exactly, o.next_w, AAdd(tb.x, Scale(mu, tb.v)), size)
            /\ Same(exactly, o.next_w,
                    AAdd(ASub(Last.w, Scale(r["learning_rate"], Last.dw)),
                         Scale(mu, tb.v)), size)
            /\ Threaded =>
                  Same(exactly, ASub(Last.w, Scale(mu, r["velocity"])),
                       TextbookOf(Prev).x, size)

\* C10 as stated: nesterov_momentum stores the textbook v' and returns
\* exactly x' + momentum*v' = w - learning_rate*dw + momentum*v', on every
\* step.
C10_NesterovIsLookAheadExact == NesterovIsLookAhead(TRUE)

\* C10, amended: nesterov_momentum stores the textbook v' and returns
\* x' + momentum*v' = w - learning_rate*dw + momentum*v' up to
\* floating-point rounding, on every step.
C10_NesterovIsLookAhead == NesterovIsLookAhead(FALSE)

\* Two nesterov steps in a row with momentum and gradients that are not
\* zero.
C10_Witness ==
    /\ rule = "nesterov_momentum"
    /\ Threaded
    /\ Last.out.ok
    /\ ~Is0(Last.config["momentum"])
    /\ ~IsZero(Prev.dw)
    /\ ~IsZero(Last.dw)

====
